---- MODULE Spec2Model ----
(***************************************************************************)
(* PaperWise clients: the Chrome extension (background service worker and  *)
(* popup) and the web frontend (UploadArea, AnalysisPage,                  *)
(* StreamingAnalysisResults), as state machines over the messages and      *)
(* HTTP exchanges they take part in.  Every await of the source is a point *)
(* where other handlers may run, so every handler is cut into one action   *)
(* per await; what runs between two awaits is one atomic step.             *)
(***************************************************************************)
EXTENDS Integers, Sequences, FiniteSets, TLC

(***************************************************************************)
(* Bounds of the model.                                                    *)
(***************************************************************************)
\* stream events delivered to one read loop
MaxEvents == 2
\* get_active_jobs responses in flight to the popup at one time
MaxLoads == 1
\* calls of startStreaming of the web frontend whose fetch or read loop has
\* not ended yet
MaxStreams == 2

\* the length of the text a stream delivers, in the pieces of Pieces
MaxText == 6

\* fetchAnalyses calls awaiting their answer at the same time
MaxFetches == 2

(***************************************************************************)
(* Values.                                                                 *)
(***************************************************************************)
\* job ids: the server hands a fresh id to every accepted submission, so the
\* id of the job submitted by invocation p of analyzePaper is p itself; all
\* the state of the background is kept per job id, and one job is followed
JobIds == {1}

\* the value of a field that is not set (JavaScript undefined)
Undef == -1

\* percentages an event may carry
ProgressValues == {50, 100}

\* a URL as the sequence of its '/'-separated parts after the scheme:
\* "N" is a new-style arXiv id (digits.digits), "O" anything else
Urls ==
  { <<"arxiv.org", "pdf", "N">>,
    <<"arxiv.org", "abs", "N">>,
    <<"arxiv.org", "html", "N">>,
    <<"arxiv.org", "abs", "O", "N">>,
    <<"arxiv.org", "list", "O">>,
    <<"evil.example", "arxiv.org", "pdf", "N">> }

NoUrl == <<>>

\* url.includes(part): the part occurs anywhere in the URL
Includes(url, part) == \E i \in 1..Len(url) : url[i] = part

\* url.includes('/pdf/'): a path part "pdf" with something after it
IncludesDir(url, part) == \E i \in 2..Len(url) : url[i] = part /\ i < Len(url)

isArxivUrl(url) ==
  /\ Includes(url, "arxiv.org")
  /\ (IncludesDir(url, "pdf") \/ IncludesDir(url, "abs") \/ IncludesDir(url, "html"))

\* the regular expression arxiv\.org\/(?:abs|html)\/([0-9]+\.[0-9]+)
AbsMatch(url) ==
  \E i \in 1..Len(url) :
    /\ i + 2 <= Len(url)
    /\ url[i] = "arxiv.org"
    /\ url[i + 1] \in {"abs", "html"}
    /\ url[i + 2] = "N"

extractPdfUrl(arxivUrl) ==
  IF IncludesDir(arxivUrl, "pdf") THEN arxivUrl
  ELSE IF AbsMatch(arxivUrl) THEN <<"arxiv.org", "pdf", "N.pdf">>
  ELSE NoUrl

\* a field a request body does not carry
Absent == "absent"

\* the key pdf_url is not in the body
AbsentUrl == <<"absent">>

NoJob == [present |-> FALSE]

NoBadge == "none"

EventTypes == {"status", "state", "log", "done", "error"}

\* the events a job's stream may deliver
Events ==
  [type : {"status", "state"}, progress : ProgressValues \cup {Undef}]
    \cup [type : {"log", "done", "error"}, progress : {Undef}]

VARIABLES
  \* ---- extension background (background.js)
  pc,             \* where invocation p of analyzePaper stands
  pdfUrlOf,       \* its pdfUrl
  activeJobs,     \* Map jobId -> { url, result }
  sseConnections, \* Map jobId -> { reader, decoder }: its keys
  readerCancelled,\* reader.cancel() was called on the job's reader
  pendingResult,  \* handleJobComplete calls awaiting fetchJobResult, per job
  badgeText,      \* chrome.action badge
  \* ---- the network, as the background sees it
  evCount,        \* events delivered so far on the job's stream
  lastProgress,   \* the last progress the stream carried
  lastEvent,      \* the last event read from the job's stream
  requests,       \* the requests the clients have sent
  fetched,        \* what the background has fetched, and from which API
  \* ---- what the background has emitted, per job
  notifications,  \* titles of the notifications shown
  sentMessages,   \* types of the messages sent with chrome.runtime.sendMessage
  cancelHandled,  \* cancel_job was handled for the job
  afterCancel,    \* what the job emitted after that
  \* ---- popup (popup.js)
  popupOpen,
  popupJobs,      \* this.jobs
  popupInbox,     \* messages on their way to handleMessage
  loadResponses,  \* get_active_jobs responses on their way to loadJobs
  cancelAwaiting, \* cancelJob calls awaiting the cancel_job response
  \* ---- web frontend
  route,          \* the page the router shows
  srvStatus,      \* the stored status of the job submitted by UploadArea
  ua,             \* UploadArea: its state and where handleFileUpload stands
  page,           \* AnalysisPage: its state and where fetchAnalysis stands
  pa,             \* PaperAnalysis: its state and where handleFileUpload stands
  st,             \* the mounted StreamingAnalysisResults: its state and refs
  streams,        \* the calls of startStreaming that have not ended
  chunkCount,     \* chunks the streams of the web frontend have delivered
  \* ---- options page and content script
  storedApiUrl,   \* apiUrl in chrome.storage.sync
  options,        \* the options page: where saveSettings stands, its status
  content,        \* the content script: where analyzeCurrentPage stands, its message
  \* ---- the text of one stream, as a read loop takes it in
  arrived,        \* the text the stream has delivered so far
  buffer,         \* the read loop's buffer
  handled,        \* the events the read loop has passed to its handler
  closed,         \* reader.read() has resolved done
  reassembled,    \* an event was handled whose line came in more than one read
  \* ---- the dashboard (Dashboard.tsx, AnalysisCard.tsx)
  stored,         \* the analyses the server stores
  dash,           \* Dashboard: whether it is mounted, and its state
  listAnswers,    \* answers to GET /analyses on their way to fetchAnalyses
  deleteAnswers,  \* answers to DELETE /analyses/{id} on their way to handleDelete
  removed         \* the analyses handleAnalysisDeleted has removed

extVars ==
  <<pc, pdfUrlOf, activeJobs, sseConnections, readerCancelled, pendingResult,
    badgeText, evCount, lastProgress, notifications,
    sentMessages, cancelHandled, afterCancel, popupOpen, popupJobs,
    popupInbox, loadResponses, cancelAwaiting, fetched, lastEvent>>

webVars == <<route, srvStatus, ua, page, pa, st, streams, chunkCount>>

scriptVars == <<storedApiUrl, options, content>>

parseVars == <<arrived, buffer, handled, closed, reassembled>>

dashVars == <<stored, dash, listAnswers, deleteAnswers, removed>>

vars == <<extVars, webVars, requests, scriptVars, parseVars, dashVars>>

(***************************************************************************)
(* Extension background.                                                   *)
(***************************************************************************)

\* showNotification(title, message): one more notification of the job
Notify(log, j, title) == [log EXCEPT ![j] = Append(@, title)]

\* chrome.runtime.sendMessage(msg).catch(() => {}): the popup gets the message
\* when it is open, and the rejection is swallowed when it is not
SendToPopup(inbox, open, msg) == IF open THEN Append(inbox, msg) ELSE inbox

\* what a job emits once cancel_job was handled for it
Late(j, kinds) ==
  IF cancelHandled[j] THEN [afterCancel EXCEPT ![j] = @ \cup kinds] ELSE afterCancel

AsyncSubmission(fileId, pdfUrl) ==
  [endpoint |-> "analyze/async", file_id |-> fileId, pdf_url |-> pdfUrl]

\* const API_BASE_URL = 'http://localhost:8000/api/v1': a URL as its
\* protocol and the rest
API_BASE_URL == [protocol |-> "http:", host |-> "localhost:8000"]

\* fetch(`${API_BASE_URL}/...`): one more fetch of the background
Fetch(log, path) == log \cup {[path |-> path, base |-> API_BASE_URL]}

\* submitJob sending a file_id next to the URL
submitJobBody_BothKeys(pdfUrl) == AsyncSubmission("arxiv", pdfUrl)

\* submitJob(pdfUrl): the body of the POST
submitJobBody(pdfUrl) == AsyncSubmission(Absent, pdfUrl)

\* contextMenus.onClicked, analyzePaper up to its first await (submitJob's fetch)
ContextMenuClick(p, url) ==
  /\ pc[p] = "idle"
  /\ isArxivUrl(url)
  /\ LET pdfUrl == extractPdfUrl(url) IN
       IF pdfUrl = NoUrl
       THEN /\ notifications' = Notify(notifications, p, "Invalid arXiv URL")
            /\ pc' = [pc EXCEPT ![p] = "returned"]
            /\ UNCHANGED <<pdfUrlOf, requests, fetched>>
       ELSE /\ requests' = requests \cup {submitJobBody(pdfUrl)}
            /\ fetched' = Fetch(fetched, "analyze/async")
            /\ pdfUrlOf' = [pdfUrlOf EXCEPT ![p] = pdfUrl]
            /\ pc' = [pc EXCEPT ![p] = "submit"]
            /\ UNCHANGED notifications
  /\ UNCHANGED <<activeJobs, sseConnections, readerCancelled, pendingResult,
                 badgeText, evCount, lastProgress, lastEvent, sentMessages,
                 cancelHandled, afterCancel, popupOpen, popupJobs, popupInbox,
                 loadResponses, cancelAwaiting>>

\* a click on a link or page that is no arXiv paper: the handler returns
ContextMenuClickOther(url) ==
  /\ ~isArxivUrl(url)
  /\ UNCHANGED vars

SubmitOutcomes == {"ok", "rejected", "no_job_id"}

\* analyzePaper storing the job before it looks at job_id
SubmitResponse_TracksBeforeCheck(p, outcome) ==
  /\ pc[p] = "submit"
  /\ IF outcome = "ok"
     THEN /\ activeJobs' = [activeJobs EXCEPT ![p] =
                 [present |-> TRUE, url |-> pdfUrlOf[p], result |-> FALSE]]
          /\ pc' = [pc EXCEPT ![p] = "connect"]
          /\ fetched' = Fetch(fetched, "jobs/id/stream")
          /\ UNCHANGED notifications
     ELSE /\ notifications' = Notify(notifications, p, "Analysis Failed")
          /\ pc' = [pc EXCEPT ![p] = "returned"]
          /\ UNCHANGED fetched
          /\ activeJobs' = [activeJobs EXCEPT ![p] =
               IF outcome = "no_job_id"
               THEN [present |-> TRUE, url |-> pdfUrlOf[p], result |-> FALSE]
               ELSE @]
  /\ UNCHANGED <<pdfUrlOf, sseConnections, readerCancelled, pendingResult,
                 badgeText, evCount, lastProgress, lastEvent, requests,
                 sentMessages, cancelHandled, afterCancel, popupOpen,
                 popupJobs, popupInbox, loadResponses, cancelAwaiting>>

\* submitJob's response (or the rejection of its fetch), then analyzePaper up
\* to the fetch of startSseStream
SubmitResponse(p, outcome) ==
  /\ pc[p] = "submit"
  /\ IF outcome = "ok"
     THEN /\ activeJobs' = [activeJobs EXCEPT ![p] =
                 [present |-> TRUE, url |-> pdfUrlOf[p], result |-> FALSE]]
          /\ pc' = [pc EXCEPT ![p] = "connect"]
          /\ fetched' = Fetch(fetched, "jobs/id/stream")
          /\ UNCHANGED notifications
     ELSE /\ notifications' = Notify(notifications, p, "Analysis Failed")
          /\ pc' = [pc EXCEPT ![p] = "returned"]
          /\ UNCHANGED fetched
          /\ UNCHANGED activeJobs
  /\ UNCHANGED <<pdfUrlOf, sseConnections, readerCancelled, pendingResult,
                 badgeText, evCount, lastProgress, lastEvent, requests,
                 sentMessages, cancelHandled, afterCancel, popupOpen,
                 popupJobs, popupInbox, loadResponses, cancelAwaiting>>

\* startSseStream's catch and finally, then the rest of analyzePaper
StreamFailed(p) ==
  /\ notifications' =
       Notify(Notify(notifications, p, "Connection Error"), p, "Analysis Started")
  /\ sseConnections' = sseConnections \ {p}
  /\ pc' = [pc EXCEPT ![p] = "returned"]
  /\ afterCancel' = Late(p, {"notification"})

\* startSseStream leaving its loop without the delete of its finally
StreamEnded_KeepsConnection(p) ==
  /\ notifications' = Notify(notifications, p, "Analysis Started")
  /\ sseConnections' = sseConnections
  /\ pc' = [pc EXCEPT ![p] = "returned"]
  /\ afterCancel' = Late(p, {"notification"})

\* startSseStream's loop left by break, its finally, then the rest of analyzePaper
StreamEnded(p) ==
  /\ notifications' = Notify(notifications, p, "Analysis Started")
  /\ sseConnections' = sseConnections \ {p}
  /\ pc' = [pc EXCEPT ![p] = "returned"]
  /\ afterCancel' = Late(p, {"notification"})

\* the response to the fetch of the stream
SseConnectResponse(p, ok) ==
  /\ pc[p] = "connect"
  /\ IF ok
     THEN /\ sseConnections' = sseConnections \cup {p}
          /\ pc' = [pc EXCEPT ![p] = "read"]
          /\ UNCHANGED <<notifications, afterCancel>>
     ELSE StreamFailed(p)
  /\ UNCHANGED <<pdfUrlOf, activeJobs, readerCancelled, pendingResult,
                 badgeText, evCount, lastProgress, lastEvent, requests, fetched,
                 sentMessages, cancelHandled, popupOpen, popupJobs,
                 popupInbox, loadResponses, cancelAwaiting>>

\* event.progress || 0
ProgressOf(event) == IF event.progress = Undef THEN 0 ELSE event.progress

\* chrome.action.setBadgeText({ text: `${progress}%` })
BadgeOf(progress) == ToString(progress) \o "%"

\* updateJobProgress(jobId, event)
updateJobProgress(j, event) ==
  /\ badgeText' = BadgeOf(ProgressOf(event))
  /\ sentMessages' = Notify(sentMessages, j, "job_progress")
  /\ popupInbox' = SendToPopup(popupInbox, popupOpen,
       [type |-> "job_progress", jobId |-> j, progress |-> ProgressOf(event)])
  /\ afterCancel' = Late(j, {"badge", "message"})
  /\ UNCHANGED <<notifications, pendingResult, fetched>>

\* handleJobComplete(jobId, event) up to its await of fetchJobResult
handleJobComplete(j) ==
  IF ~activeJobs[j].present
  THEN UNCHANGED <<badgeText, sentMessages, popupInbox, afterCancel,
                   notifications, pendingResult, fetched>>
  ELSE /\ badgeText' = NoBadge
       /\ pendingResult' = [pendingResult EXCEPT ![j] = @ + 1]
       /\ fetched' = Fetch(fetched, "jobs/id/result")
       /\ afterCancel' = Late(j, {"badge"})
       /\ UNCHANGED <<sentMessages, popupInbox, notifications>>

\* handleJobError(jobId, event)
handleJobError(j) ==
  IF ~activeJobs[j].present
  THEN UNCHANGED <<badgeText, sentMessages, popupInbox, afterCancel,
                   notifications, pendingResult, fetched>>
  ELSE /\ badgeText' = NoBadge
       /\ notifications' = Notify(notifications, j, "Analysis Failed")
       /\ sentMessages' = Notify(sentMessages, j, "job_error")
       /\ popupInbox' = SendToPopup(popupInbox, popupOpen,
            [type |-> "job_error", jobId |-> j, progress |-> Undef])
       /\ afterCancel' = Late(j, {"badge", "notification", "message"})
       /\ UNCHANGED <<pendingResult, fetched>>

\* handleSseEvent without the look-up of the job
handleSseEvent_NoJobCheck(j, event) ==
  CASE event.type = "status" -> updateJobProgress(j, event)
    [] event.type = "done" -> handleJobComplete(j)
    [] event.type = "error" -> handleJobError(j)
    [] OTHER -> UNCHANGED <<badgeText, sentMessages, popupInbox,
                            afterCancel, notifications, pendingResult,
                            fetched>>

\* handleSseEvent(jobId, event)
handleSseEvent(j, event) ==
  IF ~activeJobs[j].present
  THEN UNCHANGED <<badgeText, sentMessages, popupInbox, afterCancel,
                   notifications, pendingResult, fetched>>
  ELSE CASE event.type = "status" -> updateJobProgress(j, event)
         [] event.type = "done" -> handleJobComplete(j)
         [] event.type = "error" -> handleJobError(j)
         [] OTHER -> UNCHANGED <<badgeText, sentMessages, popupInbox,
                                 afterCancel, notifications, pendingResult,
                                 fetched>>

\* no event was read yet
NoEvent == [type |-> "none", progress |-> Undef]

\* the stream carries progress in non-decreasing order
InOrder(p, event) ==
  event.progress = Undef \/ event.progress >= lastProgress[p]

\* reader.read() resolves with one event line
SseRead(p, event) ==
  /\ pc[p] = "read"
  /\ ~readerCancelled[p]
  /\ evCount[p] < MaxEvents
  /\ InOrder(p, event)
  /\ evCount' = [evCount EXCEPT ![p] = @ + 1]
  /\ lastProgress' = [lastProgress EXCEPT ![p] =
       IF event.progress = Undef THEN @ ELSE event.progress]
  /\ lastEvent' = [lastEvent EXCEPT ![p] = event]
  /\ handleSseEvent(p, event)
  /\ UNCHANGED <<pc, pdfUrlOf, activeJobs, sseConnections, readerCancelled,
                 requests, cancelHandled, popupOpen, popupJobs,
                 loadResponses, cancelAwaiting>>

\* handleSseEvent(jobId, event) called with any job id, tracked or not, and
\* any event
CallHandleSseEvent(j, event) ==
  /\ evCount[j] < MaxEvents
  /\ evCount' = [evCount EXCEPT ![j] = @ + 1]
  /\ lastEvent' = [lastEvent EXCEPT ![j] = event]
  /\ handleSseEvent(j, event)
  /\ UNCHANGED <<pc, pdfUrlOf, activeJobs, sseConnections, readerCancelled,
                 lastProgress, requests, cancelHandled, popupOpen, popupJobs,
                 loadResponses, cancelAwaiting>>

\* reader.read() resolves with done: the server closed the stream, the
\* connection dropped cleanly, or the reader was cancelled
SseReadDone(p) ==
  /\ pc[p] = "read"
  /\ StreamEnded(p)
  /\ UNCHANGED <<pdfUrlOf, activeJobs, readerCancelled, pendingResult,
                 badgeText, evCount, lastProgress, lastEvent, requests, fetched,
                 sentMessages, cancelHandled, popupOpen, popupJobs,
                 popupInbox, loadResponses, cancelAwaiting>>

\* reader.read() rejects
SseReadError(p) ==
  /\ pc[p] = "read"
  /\ ~readerCancelled[p]
  /\ StreamFailed(p)
  /\ UNCHANGED <<pdfUrlOf, activeJobs, readerCancelled, pendingResult,
                 badgeText, evCount, lastProgress, lastEvent, requests, fetched,
                 sentMessages, cancelHandled, popupOpen, popupJobs,
                 popupInbox, loadResponses, cancelAwaiting>>

\* handleJobComplete after its await: fetchJobResult returned or threw
FetchResultResponse(j, ok) ==
  /\ pendingResult[j] > 0
  /\ pendingResult' = [pendingResult EXCEPT ![j] = @ - 1]
  /\ IF ok
     THEN /\ notifications' = Notify(notifications, j, "Analysis Complete!")
          /\ activeJobs' = [activeJobs EXCEPT ![j] =
               IF @.present THEN [@ EXCEPT !.result = TRUE] ELSE @]
          /\ sentMessages' = Notify(sentMessages, j, "job_complete")
          /\ popupInbox' = SendToPopup(popupInbox, popupOpen,
               [type |-> "job_complete", jobId |-> j, progress |-> Undef])
          /\ afterCancel' = Late(j, {"notification", "message"})
     ELSE /\ notifications' = Notify(notifications, j, "Analysis Complete")
          /\ afterCancel' = Late(j, {"notification"})
          /\ UNCHANGED <<activeJobs, sentMessages, popupInbox>>
  /\ UNCHANGED <<pc, pdfUrlOf, sseConnections, readerCancelled, badgeText,
                 evCount, lastProgress, lastEvent, requests, fetched, cancelHandled,
                 popupOpen, popupJobs, loadResponses, cancelAwaiting>>

\* cancelJob(jobId)
cancelJob(j) ==
  /\ activeJobs' = [activeJobs EXCEPT ![j] = NoJob]
  /\ readerCancelled' = [readerCancelled EXCEPT ![j] = @ \/ j \in sseConnections]
  /\ sseConnections' = sseConnections \ {j}
  /\ badgeText' = NoBadge
  /\ cancelHandled' = [cancelHandled EXCEPT ![j] = TRUE]

(***************************************************************************)
(* Popup.                                                                  *)
(***************************************************************************)

NoJobs == [j \in JobIds |-> NoJob]

\* the answer to get_active_jobs, Array.from(activeJobs.entries()), as the
\* popup gets it: a copy of every entry, which has a url and, once
\* handleJobComplete has stored it, a result, and neither status nor progress
ActiveJobsCopy ==
  [j \in JobIds |->
     IF activeJobs[j].present
     THEN [present |-> TRUE, url |-> activeJobs[j].url, status |-> "undef",
           progress |-> Undef, result |-> activeJobs[j].result,
           error |-> FALSE]
     ELSE NoJob]

\* getJobStatus(job)
getJobStatus(job) ==
  IF job.status = "done" THEN "Complete"
  ELSE IF job.status = "error" THEN "Failed"
  ELSE IF job.status = "processing" THEN "Processing"
  ELSE "Queued"

\* renderJob: const progress = job.progress || 0
ShownProgress(job) == IF job.progress = Undef THEN 0 ELSE job.progress

\* renderJobActions: the buttons of a job
renderJobActions(job) ==
  (IF job.status = "done" /\ job.result THEN {"View Results"} ELSE {})
    \cup (IF job.status \in {"processing", "queued"} THEN {"Cancel"} ELSE {})
    \cup (IF job.status = "error" THEN {"Retry"} ELSE {})

\* the popup is opened: constructor, init up to the await of loadJobs
PopupOpen ==
  /\ ~popupOpen
  /\ popupOpen' = TRUE
  /\ popupJobs' = NoJobs
  /\ loadResponses' = <<ActiveJobsCopy>>
  /\ UNCHANGED <<pc, pdfUrlOf, activeJobs, sseConnections, readerCancelled,
                 pendingResult, badgeText, evCount, lastProgress, lastEvent, requests, fetched, notifications, sentMessages, cancelHandled,
                 afterCancel, popupInbox, cancelAwaiting>>

\* the popup is closed: its page and everything on its way to it are gone
PopupClose ==
  /\ popupOpen
  /\ popupOpen' = FALSE
  /\ popupJobs' = NoJobs
  /\ popupInbox' = <<>>
  /\ loadResponses' = <<>>
  /\ cancelAwaiting' = {}
  /\ UNCHANGED <<pc, pdfUrlOf, activeJobs, sseConnections, readerCancelled,
                 pendingResult, badgeText, evCount, lastProgress, lastEvent, requests, fetched, notifications, sentMessages, cancelHandled,
                 afterCancel>>

\* setInterval(() => this.loadJobs(), 5000): loadJobs up to its await; the
\* background answers get_active_jobs with the entries it holds then
LoadJobsRequest ==
  /\ popupOpen
  /\ Len(loadResponses) < MaxLoads
  /\ loadResponses' = Append(loadResponses, ActiveJobsCopy)
  /\ UNCHANGED <<pc, pdfUrlOf, activeJobs, sseConnections, readerCancelled,
                 pendingResult, badgeText, evCount, lastProgress, lastEvent, requests, fetched, notifications, sentMessages, cancelHandled,
                 afterCancel, popupOpen, popupJobs, popupInbox, cancelAwaiting>>

\* loadJobs after its await: this.jobs.clear(), then one set per entry
loadJobs(response) == response

LoadJobsResponse ==
  /\ popupOpen
  /\ loadResponses # <<>>
  /\ popupJobs' = loadJobs(Head(loadResponses))
  /\ loadResponses' = Tail(loadResponses)
  /\ UNCHANGED <<pc, pdfUrlOf, activeJobs, sseConnections, readerCancelled,
                 pendingResult, badgeText, evCount, lastProgress, lastEvent, requests, fetched, notifications, sentMessages, cancelHandled,
                 afterCancel, popupOpen, popupInbox, cancelAwaiting>>

\* handleMessage(message): updateJobProgress, handleJobComplete, handleJobError
handleMessage(jobs, message) ==
  LET j == message.jobId
      job == jobs[j] IN
  IF ~job.present THEN jobs
  ELSE CASE message.type = "job_progress" ->
              [jobs EXCEPT ![j] = [job EXCEPT !.progress = message.progress]]
         [] message.type = "job_complete" ->
              [jobs EXCEPT ![j] = [job EXCEPT !.status = "done", !.result = TRUE]]
         [] message.type = "job_error" ->
              [jobs EXCEPT ![j] = [job EXCEPT !.status = "error", !.error = TRUE]]
         [] OTHER -> jobs

PopupReceive ==
  /\ popupOpen
  /\ popupInbox # <<>>
  /\ popupJobs' = handleMessage(popupJobs, Head(popupInbox))
  /\ popupInbox' = Tail(popupInbox)
  /\ UNCHANGED <<pc, pdfUrlOf, activeJobs, sseConnections, readerCancelled,
                 pendingResult, badgeText, evCount, lastProgress, lastEvent, requests, fetched, notifications, sentMessages, cancelHandled,
                 afterCancel, popupOpen, loadResponses, cancelAwaiting>>

\* retryJob(jobId), from the Retry button
retryJob(job) ==
  [job EXCEPT !.error = FALSE, !.status = "queued", !.progress = 0]

PopupRetryJob(j) ==
  /\ popupOpen
  /\ popupJobs[j].present
  /\ "Retry" \in renderJobActions(popupJobs[j])
  /\ popupJobs' = [popupJobs EXCEPT ![j] = retryJob(@)]
  /\ UNCHANGED <<pc, pdfUrlOf, activeJobs, sseConnections, readerCancelled,
                 pendingResult, badgeText, evCount, lastProgress, lastEvent, requests, fetched, notifications, sentMessages, cancelHandled,
                 afterCancel, popupOpen, popupInbox, loadResponses,
                 cancelAwaiting>>

\* popup.cancelJob(jobId), from the Cancel button, up to its await; the
\* background's onMessage listener handles cancel_job
PopupCancelJob(j) ==
  /\ popupOpen
  /\ popupJobs[j].present
  /\ "Cancel" \in renderJobActions(popupJobs[j])
  /\ cancelJob(j)
  /\ cancelAwaiting' = cancelAwaiting \cup {j}
  /\ UNCHANGED <<pc, pdfUrlOf, pendingResult, evCount, lastProgress, lastEvent,
                 requests, fetched, notifications, sentMessages,
                 afterCancel, popupOpen, popupJobs, popupInbox, loadResponses>>

\* popup.cancelJob after its await: this.jobs.delete(jobId)
PopupCancelJobResponse(j) ==
  /\ popupOpen
  /\ j \in cancelAwaiting
  /\ cancelAwaiting' = cancelAwaiting \ {j}
  /\ popupJobs' = [popupJobs EXCEPT ![j] = NoJob]
  /\ UNCHANGED <<pc, pdfUrlOf, activeJobs, sseConnections, readerCancelled,
                 pendingResult, badgeText, evCount, lastProgress, lastEvent, requests, fetched, notifications, sentMessages, cancelHandled,
                 afterCancel, popupOpen, popupInbox, loadResponses>>

(***************************************************************************)
(* Web frontend.  The components' state is kept in one record per          *)
(* component; a handler is a function from the state before it to the      *)
(* state after it, and React renders (and runs the effects) after it.      *)
(***************************************************************************)

\* the ids the upload endpoint gives the files: one to the file uploaded
\* through UploadArea, another to a file uploaded on the /upload page
FileId == "f1"

PaperFileId == "f2"

\* fileId={fileId || ''}
NoFileId == ""

\* the chunks the stream of POST /analyze/stream may deliver; "content"
\* stands for methodology_chunk, results_chunk, contextualization_chunk and
\* synthesis_chunk
Chunks ==
  [type : {"status"}, progress : {Undef, 50}]
    \cup [type : {"content", "complete", "error", "other"}, progress : {Undef}]

StreamSlots == 1..MaxStreams

\* stopped is history: Stop was clicked while the call was running
FreeStream == [pc |-> "free", live |-> FALSE, host |-> "none", stopped |-> FALSE]

\* the state of StreamingAnalysisResults after its mount
Mounted(host, fileId) ==
  [host |-> host, fileId |-> fileId, isStreaming |-> FALSE,
   isStreamingRef |-> FALSE, progress |-> 0, analysis |-> FALSE,
   error |-> FALSE, content |-> FALSE]

Unmounted == Mounted("none", NoFileId)

\* the web state a handler works on; full is set when a call of
\* startStreaming finds MaxStreams calls still running
World ==
  [route |-> route, srvStatus |-> srvStatus, ua |-> ua, page |-> page,
   pa |-> pa, st |-> st, streams |-> streams, requests |-> requests,
   full |-> FALSE]

\* the calls that are running are kept in a fixed order, free slots first:
\* which slot holds a call is of no consequence
Rank(stream) ==
  (CASE stream.pc = "free" -> 0 [] stream.pc = "fetch" -> 1 [] OTHER -> 2) * 8
    + (IF stream.live THEN 4 ELSE 0)
    + (CASE stream.host = "none" -> 0 [] stream.host = "AnalysisPage" -> 1
         [] OTHER -> 2)

Ordered(ss) ==
  CHOOSE t \in {[i \in StreamSlots |-> ss[q[i]]] : q \in Permutations(StreamSlots)} :
    \A i, k \in StreamSlots : i < k => Rank(t[i]) <= Rank(t[k])

Commit(w) ==
  /\ ~w.full
  /\ route' = w.route
  /\ srvStatus' = w.srvStatus
  /\ ua' = w.ua
  /\ page' = w.page
  /\ pa' = w.pa
  /\ st' = w.st
  /\ streams' = Ordered(w.streams)
  /\ requests' = w.requests

StreamRequest(fileId) ==
  [endpoint |-> "analyze/stream", file_id |-> fileId, pdf_url |-> AbsentUrl]

\* startStreaming up to its await of fetch
startStreaming(w) ==
  IF w.st.isStreaming \/ w.st.isStreamingRef THEN w
  ELSE IF \A i \in StreamSlots : w.streams[i].pc # "free"
  THEN [w EXCEPT !.full = TRUE]
  ELSE LET i == CHOOSE k \in StreamSlots : w.streams[k].pc = "free" IN
       [w EXCEPT
          !.st = [@ EXCEPT !.isStreaming = TRUE, !.isStreamingRef = TRUE,
                           !.error = FALSE, !.progress = 0,
                           !.content = FALSE],
          !.streams = [@ EXCEPT ![i] =
            [pc |-> "fetch", live |-> TRUE, host |-> w.st.host,
             stopped |-> FALSE]],
          !.requests = @ \cup {StreamRequest(w.st.fileId)}]

\* the effect on [fileId, isStreaming, analysis, startStreaming]
autoStart(w) ==
  IF w.st.host # "none" /\ w.st.fileId # NoFileId
       /\ ~w.st.isStreaming /\ ~w.st.analysis
  THEN startStreaming(w)
  ELSE w

\* AnalysisPage's render: which of its four views it returns
pageView(pg) ==
  IF pg.error /\ pg.analysisStatus \notin {"processing", "queued"} THEN "error"
  ELSE IF pg.analysisStatus \in {"processing", "queued"} THEN "streaming"
  ELSE IF pg.analysis THEN "results"
  ELSE "loading"

\* whether the page the router shows renders StreamingAnalysisResults
Shows(w) ==
  IF w.route = "analysis" /\ pageView(w.page) = "streaming" THEN "AnalysisPage"
  ELSE IF w.route = "upload" /\ w.pa.uploadedFile /\ w.pa.fileId # NoFileId
  THEN "PaperAnalysis"
  ELSE "none"

\* React after a handler: the component is mounted, unmounted or kept as
\* its parent's render says, its fileId prop is the parent's, and the
\* effect runs; the read loops of an unmounted component go on, cut off
\* from its state
render(w) ==
  LET host == Shows(w)
      prop == IF host = "AnalysisPage" THEN w.page.fileId ELSE w.pa.fileId
      cut == [i \in StreamSlots |-> [w.streams[i] EXCEPT !.live = FALSE]]
  IN
  IF host = "none"
  THEN IF w.st.host = "none" THEN w
       ELSE [w EXCEPT !.st = Unmounted, !.streams = cut]
  ELSE IF w.st.host = host
  THEN autoStart([w EXCEPT !.st = [@ EXCEPT !.fileId = prop]])
  ELSE autoStart([w EXCEPT !.st = Mounted(host, prop), !.streams = cut])

\* ---- UploadArea (on the dashboard)

\* const maxSize = 50 * 1024 * 1024
maxSize == 52428800

\* the files a user may pick: the extension of the name and the size
Files == [ext : {"pdf", "PDF", "txt"}, size : {1, maxSize, maxSize + 1}]

\* String.prototype.toLowerCase, on the extensions of Files
toLowerCase(ext) == IF ext = "PDF" THEN "pdf" ELSE ext

InitUploadArea ==
  [pc |-> "idle", isUploading |-> FALSE, uploadProgress |-> 0,
   error |-> "none", navigated |-> FALSE, uploadSuccess |-> FALSE]

InitPage ==
  [pc |-> "none", analysis |-> FALSE, isLoading |-> TRUE, error |-> FALSE,
   analysisStatus |-> "unknown", fileId |-> NoFileId]

Request(endpoint) ==
  [endpoint |-> endpoint, file_id |-> Absent, pdf_url |-> AbsentUrl]

\* startAnalysis(fileId, filename): the body of the POST
startAnalysisBody(fileId) == AsyncSubmission(fileId, AbsentUrl)

\* handleFileUpload without the check of the size
handleFileUpload_NoSizeCheck(w, file) ==
  IF toLowerCase(file.ext) # "pdf"
  THEN [w EXCEPT !.ua = [@ EXCEPT !.error = "Only PDF files are supported"]]
  ELSE [w EXCEPT
          !.ua = [@ EXCEPT !.isUploading = TRUE, !.error = "none",
                           !.uploadProgress = 0, !.pc = "upload"],
          !.requests = @ \cup {Request("upload")}]

\* handleFileUpload(file) up to its await of the upload
handleFileUpload(w, file) ==
  IF toLowerCase(file.ext) # "pdf"
  THEN [w EXCEPT !.ua = [@ EXCEPT !.error = "Only PDF files are supported"]]
  ELSE IF file.size > maxSize
  THEN [w EXCEPT !.ua = [@ EXCEPT !.error = "File size must be less than 50MB"]]
  ELSE [w EXCEPT
          !.ua = [@ EXCEPT !.isUploading = TRUE, !.error = "none",
                           !.uploadProgress = 0, !.pc = "upload"],
          !.requests = @ \cup {Request("upload")}]

\* the finally of handleFileUpload
uploadFinally(u) ==
  [u EXCEPT !.isUploading = FALSE, !.uploadProgress = 0, !.pc = "idle"]

\* handleFileUpload after the upload answered, up to the await in startAnalysis
uploadAnswered(w, ok) ==
  IF ok
  THEN [w EXCEPT
          !.ua = [@ EXCEPT !.uploadProgress = 100, !.pc = "analyze"],
          !.requests = @ \cup {startAnalysisBody(FileId)}]
  ELSE [w EXCEPT !.ua = uploadFinally([@ EXCEPT !.error = "Upload failed"])]

\* fetchAnalysis up to its first await
fetchAnalysis(w) ==
  [w EXCEPT
     !.page = [@ EXCEPT !.isLoading = TRUE, !.error = FALSE, !.pc = "metadata"],
     !.requests = @ \cup {Request("analyses/id")}]

\* startAnalysis navigating whatever the answer to the submission
analysisAnswered_NavigatesOnFailure(w, ok) ==
  fetchAnalysis(
    [w EXCEPT
       !.srvStatus = "queued",
       !.route = "analysis",
       !.page = InitPage,
       !.ua = uploadFinally([@ EXCEPT
                !.navigated = TRUE, !.uploadSuccess = TRUE,
                !.error = IF ok THEN @ ELSE "Failed to start analysis"])])

\* startAnalysis after the submission answered, then the rest of
\* handleFileUpload; navigate mounts AnalysisPage, whose effect calls
\* fetchAnalysis
analysisAnswered(w, ok) ==
  IF ok
  THEN fetchAnalysis(
         [w EXCEPT
            !.srvStatus = "queued",
            !.route = "analysis",
            !.page = InitPage,
            !.ua = uploadFinally([@ EXCEPT !.navigated = TRUE,
                                           !.uploadSuccess = TRUE])])
  ELSE [w EXCEPT
          !.ua = uploadFinally([@ EXCEPT !.error = "Failed to start analysis"])]

SelectFile(file) ==
  /\ route = "dashboard"
  /\ ua.pc = "idle"
  /\ ~ua.isUploading
  /\ Commit(render(handleFileUpload(World, file)))

UploadResponse(ok) ==
  /\ ua.pc = "upload"
  /\ Commit(render(uploadAnswered(World, ok)))

AnalyzeResponse(ok) ==
  /\ ua.pc = "analyze"
  /\ Commit(render(analysisAnswered(World, ok)))

\* ---- the job on the server: queued, processing, then completed or error
ServerStep(to) ==
  /\ \/ srvStatus = "queued" /\ to = "processing"
     \/ srvStatus = "processing" /\ to \in {"completed", "error"}
  /\ srvStatus' = to
  /\ UNCHANGED <<extVars, route, ua, page, pa, st, streams, chunkCount,
                 requests, scriptVars, parseVars, dashVars>>

\* ---- AnalysisPage

\* original_filename as its '_'-separated parts: the upload stores the file
\* under "<file id>_<name>", and names without '_' are possible too
Filenames == { <<FileId, "paper.pdf">>, <<"paper.pdf">> }

\* originalFilename.includes('_') ? originalFilename.split('_')[0] : fileId
extractFileId(old, originalFilename) ==
  IF Len(originalFilename) > 1 THEN originalFilename[1] ELSE old

\* fetchAnalysis after the metadata answered, up to its next await or its
\* end; pc tells where it returned: "failed" from the catch, "streaming" from
\* the return of the in-progress branch, "loaded" after setAnalysis, "ended"
\* when no branch was taken
metadataAnswered(w, ok, originalFilename) ==
  IF ~ok
  THEN [w EXCEPT !.page = [@ EXCEPT !.error = TRUE, !.isLoading = FALSE,
                                    !.pc = "failed"]]
  ELSE LET status == w.srvStatus IN
       IF status \in {"processing", "queued"}
       THEN [w EXCEPT !.page = [@ EXCEPT
               !.analysisStatus = status,
               !.fileId = extractFileId(@, originalFilename),
               !.isLoading = FALSE, !.pc = "streaming"]]
       ELSE IF status = "completed"
       THEN [w EXCEPT
               !.page = [@ EXCEPT !.analysisStatus = status, !.pc = "results"],
               !.requests = @ \cup {Request("analyses/id/results")}]
       ELSE [w EXCEPT !.page = [@ EXCEPT !.analysisStatus = status,
                                         !.isLoading = FALSE,
                                         !.pc = "ended"]]

\* fetchAnalysis dropping the results it was served
resultsAnswered_NoSetAnalysis(w, ok) ==
  IF ok
  THEN [w EXCEPT !.page = [@ EXCEPT !.isLoading = FALSE, !.pc = "loaded"]]
  ELSE [w EXCEPT !.page = [@ EXCEPT !.error = TRUE, !.isLoading = FALSE,
                                    !.pc = "failed"]]

\* fetchAnalysis after the results answered
resultsAnswered(w, ok) ==
  IF ok
  THEN [w EXCEPT !.page = [@ EXCEPT !.analysis = TRUE, !.isLoading = FALSE,
                                    !.pc = "loaded"]]
  ELSE [w EXCEPT !.page = [@ EXCEPT !.error = TRUE, !.isLoading = FALSE,
                                    !.pc = "failed"]]

MetadataResponse(ok, originalFilename) ==
  /\ page.pc = "metadata"
  /\ Commit(render(metadataAnswered(World, ok, originalFilename)))

ResultsResponse(ok) ==
  /\ page.pc = "results"
  /\ Commit(render(resultsAnswered(World, ok)))

\* where fetchAnalysis has returned
Returned == {"failed", "streaming", "loaded", "ended"}

\* the Try Again button of the error view; one fetchAnalysis runs at a time
TryAgain ==
  /\ route = "analysis"
  /\ pageView(page) = "error"
  /\ page.pc \in Returned
  /\ Commit(render(fetchAnalysis(World)))

\* ---- PaperAnalysis (the /upload page)

InitPaperAnalysis ==
  [pc |-> "idle", uploadedFile |-> FALSE, isUploading |-> FALSE,
   fileId |-> NoFileId, analysis |-> FALSE, error |-> FALSE]

OpenUploadPage ==
  /\ route = "dashboard"
  /\ Commit(render([World EXCEPT !.route = "upload", !.pa = InitPaperAnalysis]))

\* PaperAnalysis.handleFileUpload up to its await
PaperUpload ==
  /\ route = "upload"
  /\ ~pa.uploadedFile
  /\ ~pa.isUploading
  /\ Commit(render([World EXCEPT
       !.pa = [@ EXCEPT !.isUploading = TRUE, !.error = FALSE, !.pc = "upload"],
       !.requests = @ \cup {Request("upload")}]))

\* PaperAnalysis.handleFileUpload after its await
PaperUploadResponse(ok) ==
  /\ pa.pc = "upload"
  /\ Commit(render([World EXCEPT !.pa =
       IF ok
       THEN [@ EXCEPT !.fileId = PaperFileId, !.uploadedFile = TRUE,
                      !.isUploading = FALSE, !.pc = "idle"]
       ELSE [@ EXCEPT !.error = TRUE, !.isUploading = FALSE, !.pc = "idle"]]))

\* handleFileRemove
PaperRemoveFile ==
  /\ route = "upload"
  /\ pa.uploadedFile
  /\ Commit(render([World EXCEPT !.pa =
       [@ EXCEPT !.uploadedFile = FALSE, !.fileId = NoFileId,
                 !.analysis = FALSE, !.error = FALSE]]))

\* ---- StreamingAnalysisResults

\* onComplete of the parent that passed it; an unmounted parent's setters
\* do nothing
onComplete(w, host) ==
  IF host = "AnalysisPage" /\ w.route = "analysis"
  THEN [w EXCEPT !.page = [@ EXCEPT !.analysis = TRUE,
                                    !.analysisStatus = "completed"]]
  ELSE IF host = "PaperAnalysis" /\ w.route = "upload"
  THEN [w EXCEPT !.pa = [@ EXCEPT !.analysis = TRUE]]
  ELSE w

\* onError of the parent that passed it
onError(w, host) ==
  IF host = "AnalysisPage" /\ w.route = "analysis"
  THEN [w EXCEPT !.page = [@ EXCEPT !.error = TRUE]]
  ELSE IF host = "PaperAnalysis" /\ w.route = "upload"
  THEN [w EXCEPT !.pa = [@ EXCEPT !.error = TRUE]]
  ELSE w

\* the setters of a component that was unmounted do nothing
SetState(w, i, new) == IF w.streams[i].live THEN [w EXCEPT !.st = new] ELSE w

\* handleStreamChunk(chunk), called by the read loop i
handleStreamChunk(w, i, chunk) ==
  LET host == w.streams[i].host IN
  CASE chunk.type = "status" ->
         IF chunk.progress # Undef
         THEN SetState(w, i, [w.st EXCEPT !.progress = chunk.progress])
         ELSE w
    [] chunk.type = "content" ->
         SetState(w, i, [w.st EXCEPT !.content = TRUE])
    [] chunk.type = "complete" ->
         onComplete(
           SetState(w, i, [w.st EXCEPT !.analysis = TRUE, !.progress = 100]),
           host)
    [] chunk.type = "error" ->
         onError(SetState(w, i, [w.st EXCEPT !.error = TRUE]), host)
    [] OTHER -> w

\* the catch of startStreaming
streamCatch(w, i) ==
  onError(SetState(w, i, [w.st EXCEPT !.error = TRUE]), w.streams[i].host)

\* the finally of startStreaming
streamFinally(w, i) ==
  [SetState(w, i, [w.st EXCEPT !.isStreaming = FALSE, !.isStreamingRef = FALSE])
     EXCEPT !.streams = [@ EXCEPT ![i] = FreeStream]]

\* stopStreaming
stopStreaming(w) ==
  [w EXCEPT !.st = [@ EXCEPT !.isStreaming = FALSE, !.isStreamingRef = FALSE]]

\* history: the calls of the component that are running are marked as
\* stopped; no code reads the mark
markStopped(w) ==
  [w EXCEPT !.streams = [i \in StreamSlots |->
     IF w.streams[i].pc # "free" /\ w.streams[i].live
     THEN [w.streams[i] EXCEPT !.stopped = TRUE]
     ELSE w.streams[i]]]

\* which of its three views the component returns
componentView(s) ==
  IF s.error THEN "error" ELSE IF s.analysis THEN "analysis" ELSE "progress"

\* the answer to the fetch of startStreaming
StreamResponse(i, ok) ==
  /\ streams[i].pc = "fetch"
  /\ Commit(render(
       IF ok
       THEN [World EXCEPT !.streams = [@ EXCEPT ![i] = [@ EXCEPT !.pc = "read"]]]
       ELSE streamFinally(streamCatch(World, i), i)))

\* reader.read() resolves with one chunk line
StreamRead(i, chunk) ==
  /\ streams[i].pc = "read"
  /\ chunkCount < MaxEvents
  /\ chunkCount' = chunkCount + 1
  /\ Commit(render(handleStreamChunk(World, i, chunk)))

\* reader.read() resolves with done
StreamReadDone(i) ==
  /\ streams[i].pc = "read"
  /\ Commit(render(streamFinally(World, i)))

\* reader.read() rejects
StreamReadError(i) ==
  /\ streams[i].pc = "read"
  /\ Commit(render(streamFinally(streamCatch(World, i), i)))

\* the Retry Analysis button of the error view
RetryClick ==
  /\ st.host # "none"
  /\ componentView(st) = "error"
  /\ Commit(render(startStreaming(World)))

\* the Start Analysis button
StartClick ==
  /\ st.host # "none"
  /\ componentView(st) = "progress"
  /\ ~st.isStreaming /\ ~st.analysis
  /\ Commit(render(startStreaming(World)))

\* the Stop button
StopClick ==
  /\ st.host # "none"
  /\ componentView(st) = "progress"
  /\ st.isStreaming
  /\ Commit(render(stopStreaming(World)))

\* the Stop button, with the calls it finds running marked
StopClickMarked ==
  /\ st.host # "none"
  /\ componentView(st) = "progress"
  /\ st.isStreaming
  /\ Commit(render(markStopped(stopStreaming(World))))

InitWeb ==
  /\ route = "dashboard"
  /\ srvStatus = "none"
  /\ ua = InitUploadArea
  /\ page = InitPage
  /\ pa = InitPaperAnalysis
  /\ st = Unmounted
  /\ streams = [i \in StreamSlots |-> FreeStream]
  /\ chunkCount = 0

(***************************************************************************)
(* Options page and content script.                                        *)
(***************************************************************************)

\* the default case of the background's onMessage listener: its answer to a
\* message that is neither get_active_jobs nor cancel_job; it does nothing else
onMessageDefault == [success |-> FALSE, error |-> "Unknown message type"]

\* ---- options page (PaperWiseOptions)

\* what the API URL field may hold: the protocol new URL() finds in it
\* ("none" when new URL() throws) and the rest
ApiUrlInputs == [protocol : {"https:", "ftp:", "none"}, host : {"api.example"}]

\* chrome.storage.sync holds no apiUrl
NoSetting == [protocol |-> "none", host |-> "none"]

isValidUrl(string) == string.protocol \in {"http:", "https:"}

InitOptions == [pc |-> "idle", apiUrl |-> NoSetting, status |-> "none"]

\* saveSettings up to its await of chrome.storage.sync.set
SaveSettings(input) ==
  /\ options.pc = "idle"
  /\ IF ~isValidUrl(input)
     THEN options' = [options EXCEPT !.status = "Please enter a valid API URL"]
     ELSE options' = [options EXCEPT !.pc = "set", !.apiUrl = input]
  /\ UNCHANGED <<storedApiUrl, content>>

\* saveSettings after its await: the settings are stored, the status is
\* shown and settings_updated is sent, which the background's listener
\* answers from its default case; or storage.sync.set rejected
SaveSettingsStored(ok) ==
  /\ options.pc = "set"
  /\ IF ok
     THEN /\ storedApiUrl' = options.apiUrl
          /\ options' = [pc |-> "idle", apiUrl |-> NoSetting,
                         status |-> "Settings saved successfully!"]
     ELSE /\ options' = [pc |-> "idle", apiUrl |-> NoSetting,
                         status |-> "Failed to save settings"]
          /\ UNCHANGED storedApiUrl
  /\ UNCHANGED content

\* ---- content script (ArxivContentScript)

\* isArxivPage: window.location.hostname.includes('arxiv.org')
isArxivPage(url) == Head(url) = "arxiv.org"

\* ArxivContentScript.extractPdfUrl, on window.location.href
contentExtractPdfUrl(currentUrl) ==
  IF IncludesDir(currentUrl, "pdf") THEN currentUrl
  ELSE IF AbsMatch(currentUrl) THEN <<"arxiv.org", "pdf", "N">>
  ELSE NoUrl

InitContent ==
  [pc |-> "idle", pdfUrl |-> NoUrl, response |-> onMessageDefault,
   shown |-> "none"]

\* a click on the indicator: analyzeCurrentPage up to its await of
\* sendMessage({type: 'analyze_paper', url: pdfUrl}), which the background's
\* listener answers from its default case
analyzeCurrentPage(currentUrl) ==
  /\ content.pc = "idle"
  /\ isArxivPage(currentUrl)
  /\ LET pdfUrl == contentExtractPdfUrl(currentUrl) IN
       IF pdfUrl = NoUrl
       THEN content' = [content EXCEPT !.pdfUrl = NoUrl,
                          !.shown = "Could not find PDF for this paper"]
       ELSE content' = [content EXCEPT !.pc = "awaiting", !.pdfUrl = pdfUrl,
                          !.response = onMessageDefault]
  /\ UNCHANGED <<storedApiUrl, options>>

\* analyzeCurrentPage after its await: the response arrived, or sendMessage
\* rejected
ContentResponse(delivered) ==
  /\ content.pc = "awaiting"
  /\ content' = [content EXCEPT
       !.pc = "idle",
       !.shown = IF ~delivered THEN "Failed to start analysis"
                 ELSE IF content.response.success THEN "Analysis started!"
                 ELSE "Failed to start analysis: " \o content.response.error]
  /\ UNCHANGED <<storedApiUrl, options>>

InitScripts ==
  /\ storedApiUrl = NoSetting
  /\ options = InitOptions
  /\ content = InitContent

(***************************************************************************)
(* The read loop of a stream (startSseStream in the background,            *)
(* startStreaming in the frontend), on the text of the stream.             *)
(***************************************************************************)

\* the text of a stream is a sequence of pieces: "data: ", two JSON texts,
\* a text that is no JSON, and the newline
Pieces == {"data: ", "{a}", "{b}", "junk", "\n"}

\* what one read may deliver: a piece or two, or a whole event
Values ==
  {<<a>> : a \in Pieces} \cup {<<a, b>> : a \in Pieces, b \in Pieces}
    \cup {<<"data: ", e, "\n">> : e \in {"{a}", "{b}"}}

\* text.split('\n'), as the sequence of its lines
RECURSIVE split(_)
split(text) ==
  IF \A i \in 1..Len(text) : text[i] # "\n" THEN <<text>>
  ELSE LET k == CHOOSE i \in 1..Len(text) :
                  text[i] = "\n" /\ \A m \in 1..(i - 1) : text[m] # "\n"
       IN <<SubSeq(text, 1, k - 1)>> \o split(SubSeq(text, k + 1, Len(text)))

\* line.startsWith('data: ')
startsWithData(line) == Len(line) >= 1 /\ line[1] = "data: "

\* JSON.parse(line.substring(6)) returns
parses(line) == Len(line) = 2 /\ line[2] \in {"{a}", "{b}"}

\* the body of the for loop without the test of the prefix
handleLine_NoPrefixCheck(line) == IF parses(line) THEN <<line[2]>> ELSE <<>>

\* the body of the for loop: what the line passes to the handler
handleLine(line) ==
  IF startsWithData(line)
  THEN IF parses(line) THEN <<line[2]>> ELSE <<>>
  ELSE <<>>

\* the for loop: the events that reach the handler, in their order
RECURSIVE EventsIn(_)
EventsIn(lines) ==
  IF lines = <<>> THEN <<>>
  ELSE handleLine(Head(lines)) \o EventsIn(Tail(lines))

\* one round of the loop with the buffer dropped after each read
readRound_NoCarry(buf, value) ==
  LET lines == split(value) IN
  [buffer |-> lines[Len(lines)],
   events |-> EventsIn(SubSeq(lines, 1, Len(lines) - 1))]

\* one round of the loop after reader.read() gave a value: the new buffer
\* (lines.pop()) and the events passed to the handler
readRound(buf, value) ==
  LET lines == split(buf \o value) IN
  [buffer |-> lines[Len(lines)],
   events |-> EventsIn(SubSeq(lines, 1, Len(lines) - 1))]

\* history: the read completes an event whose line began in the buffer
completes(buf, value) ==
  /\ buf # <<>>
  /\ Len(split(buf \o value)) > 1
  /\ handleLine(split(buf \o value)[1]) # <<>>

InitParse ==
  /\ arrived = <<>>
  /\ buffer = <<>>
  /\ handled = <<>>
  /\ closed = FALSE
  /\ reassembled = FALSE

\* reader.read() resolves with a value
ParseRead(value) ==
  /\ ~closed
  /\ Len(arrived) + Len(value) <= MaxText
  /\ arrived' = arrived \o value
  /\ buffer' = readRound(buffer, value).buffer
  /\ handled' = handled \o readRound(buffer, value).events
  /\ reassembled' = (reassembled \/ completes(buffer, value))
  /\ UNCHANGED closed

\* reader.read() resolves with done: break
ParseDone ==
  /\ ~closed
  /\ closed' = TRUE
  /\ UNCHANGED <<arrived, buffer, handled, reassembled>>

(***************************************************************************)
(* The dashboard: the list of analyses, its refreshes and the deletes.     *)
(***************************************************************************)

\* the analyses the server stores at the start
AnalysisIds == {"a1", "a2"}

InitDashboard == [mounted |-> FALSE, analyses |-> {}, loading |-> TRUE,
                  refreshing |-> FALSE]

InitDash ==
  /\ stored = AnalysisIds
  /\ dash = InitDashboard
  /\ listAnswers = <<>>
  /\ deleteAnswers = [id \in AnalysisIds |-> "none"]
  /\ removed = {}

\* what GET /analyses may answer: the list the server stores then, or a
\* failure
ListAnswers == {[ok |-> TRUE, analyses |-> stored], [ok |-> FALSE, analyses |-> {}]}

\* fetchAnalyses up to its await
fetchAnalysesSent(answer) ==
  /\ Len(listAnswers) < MaxFetches
  /\ answer \in ListAnswers
  /\ listAnswers' = Append(listAnswers, answer)

\* the mount of Dashboard: its first effect calls fetchAnalyses
DashboardMount(answer) ==
  /\ ~dash.mounted
  /\ fetchAnalysesSent(answer)
  /\ dash' = [dash EXCEPT !.mounted = TRUE]
  /\ UNCHANGED <<stored, deleteAnswers, removed>>

\* the 30-second interval, and handleUploadSuccess: fetchAnalyses is called
PollTick(answer) ==
  /\ dash.mounted
  /\ fetchAnalysesSent(answer)
  /\ UNCHANGED <<stored, dash, deleteAnswers, removed>>

\* the Refresh button
RefreshClick(answer) ==
  /\ dash.mounted
  /\ ~dash.refreshing
  /\ fetchAnalysesSent(answer)
  /\ dash' = [dash EXCEPT !.refreshing = TRUE]
  /\ UNCHANGED <<stored, deleteAnswers, removed>>

\* s without its i-th element
Without(s, i) == SubSeq(s, 1, i - 1) \o SubSeq(s, i + 1, Len(s))

\* fetchAnalyses after its await, the answers arriving in any order:
\* setAnalyses(data.analyses || []) or the catch, then the finally
FetchAnalysesResponse(i) ==
  /\ i \in 1..Len(listAnswers)
  /\ dash' = [dash EXCEPT
       !.analyses = IF listAnswers[i].ok THEN listAnswers[i].analyses ELSE @,
       !.loading = FALSE,
       !.refreshing = FALSE]
  /\ listAnswers' = Without(listAnswers, i)
  /\ UNCHANGED <<stored, deleteAnswers, removed>>

\* AnalysisCard.handleDelete up to its await, the Delete button being
\* disabled while isDeleting; the server deletes the analysis and answers
\* OK, or refuses
DeleteClick(id, ok) ==
  /\ dash.mounted
  /\ id \in dash.analyses
  /\ deleteAnswers[id] = "none"
  /\ stored' = IF ok THEN stored \ {id} ELSE stored
  /\ deleteAnswers' = [deleteAnswers EXCEPT ![id] = IF ok THEN "ok" ELSE "failed"]
  /\ UNCHANGED <<dash, listAnswers, removed>>

\* handleAnalysisDeleted(analysisId)
handleAnalysisDeleted(d, analysisId) ==
  [d EXCEPT !.analyses = @ \ {analysisId}]

\* handleDelete after its await: onDelete on an OK answer, the alert
\* otherwise
DeleteResponse(id) ==
  /\ deleteAnswers[id] # "none"
  /\ deleteAnswers' = [deleteAnswers EXCEPT ![id] = "none"]
  /\ IF deleteAnswers[id] = "ok"
     THEN /\ dash' = handleAnalysisDeleted(dash, id)
          /\ removed' = removed \cup {id}
     ELSE UNCHANGED <<dash, removed>>
  /\ UNCHANGED <<stored, listAnswers>>

(***************************************************************************)
(* The extension as a whole.                                               *)
(***************************************************************************)

InitExt ==
  /\ pc = [p \in JobIds |-> "idle"]
  /\ pdfUrlOf = [p \in JobIds |-> NoUrl]
  /\ activeJobs = NoJobs
  /\ sseConnections = {}
  /\ readerCancelled = [j \in JobIds |-> FALSE]
  /\ pendingResult = [j \in JobIds |-> 0]
  /\ badgeText = NoBadge
  /\ evCount = [j \in JobIds |-> 0]
  /\ lastProgress = [j \in JobIds |-> 0]
  /\ notifications = [j \in JobIds |-> <<>>]
  /\ sentMessages = [j \in JobIds |-> <<>>]
  /\ cancelHandled = [j \in JobIds |-> FALSE]
  /\ afterCancel = [j \in JobIds |-> {}]
  /\ popupOpen = FALSE
  /\ popupJobs = NoJobs
  /\ popupInbox = <<>>
  /\ loadResponses = <<>>
  /\ cancelAwaiting = {}
  /\ fetched = {}
  /\ lastEvent = [j \in JobIds |-> NoEvent]

Init ==
  /\ InitExt
  /\ InitWeb
  /\ InitScripts
  /\ InitParse
  /\ InitDash
  /\ requests = {}

\* a step of the extension leaves the web frontend alone
Ext(A) == A /\ UNCHANGED <<webVars, scriptVars, parseVars, dashVars>>

NextExt ==
  \/ \E p \in JobIds, url \in Urls : Ext(ContextMenuClick(p, url))
  \/ \E url \in Urls : ContextMenuClickOther(url)
  \/ \E p \in JobIds, outcome \in SubmitOutcomes : Ext(SubmitResponse(p, outcome))
  \/ \E p \in JobIds, ok \in BOOLEAN : Ext(SseConnectResponse(p, ok))
  \/ \E p \in JobIds, event \in Events : Ext(SseRead(p, event))
  \/ \E p \in JobIds : Ext(SseReadDone(p))
  \/ \E p \in JobIds : Ext(SseReadError(p))
  \/ \E j \in JobIds, ok \in BOOLEAN : Ext(FetchResultResponse(j, ok))
  \/ Ext(PopupOpen)
  \/ Ext(PopupClose)
  \/ Ext(LoadJobsRequest)
  \/ Ext(LoadJobsResponse)
  \/ Ext(PopupReceive)
  \/ \E j \in JobIds : Ext(PopupRetryJob(j))
  \/ \E j \in JobIds : Ext(PopupCancelJob(j))
  \/ \E j \in JobIds : Ext(PopupCancelJobResponse(j))

\* a step of the web frontend other than the arrival of a chunk
Web(A) == A /\ UNCHANGED <<extVars, chunkCount, scriptVars, parseVars, dashVars>>

NextWeb ==
  \/ \E file \in Files : Web(SelectFile(file))
  \/ \E ok \in BOOLEAN : Web(UploadResponse(ok))
  \/ \E ok \in BOOLEAN : Web(AnalyzeResponse(ok))
  \/ \E to \in {"processing", "completed", "error"} : ServerStep(to)
  \/ \E ok \in BOOLEAN, name \in Filenames : Web(MetadataResponse(ok, name))
  \/ \E ok \in BOOLEAN : Web(ResultsResponse(ok))
  \/ Web(TryAgain)
  \/ Web(OpenUploadPage)
  \/ Web(PaperUpload)
  \/ \E ok \in BOOLEAN : Web(PaperUploadResponse(ok))
  \/ Web(PaperRemoveFile)
  \/ \E i \in StreamSlots, ok \in BOOLEAN : Web(StreamResponse(i, ok))
  \/ \E i \in StreamSlots, chunk \in Chunks :
       StreamRead(i, chunk) /\ UNCHANGED <<extVars, scriptVars, parseVars, dashVars>>
  \/ \E i \in StreamSlots : Web(StreamReadDone(i))
  \/ \E i \in StreamSlots : Web(StreamReadError(i))
  \/ Web(RetryClick)
  \/ Web(StartClick)
  \/ Web(StopClick)

\* the extension
SpecExt == Init /\ [][NextExt]_vars

\* the web frontend
SpecWeb == Init /\ [][NextWeb]_vars

\* both clients
Spec == Init /\ [][NextExt \/ NextWeb]_vars

\* the submissions of both clients: the context menu up to the answer to
\* submitJob, and UploadArea
NextSubmit ==
  \/ \E p \in JobIds, url \in Urls : Ext(ContextMenuClick(p, url))
  \/ \E url \in Urls : ContextMenuClickOther(url)
  \/ \E p \in JobIds, outcome \in SubmitOutcomes : Ext(SubmitResponse(p, outcome))
  \/ \E file \in Files : Web(SelectFile(file))
  \/ \E ok \in BOOLEAN : Web(UploadResponse(ok))
  \/ \E ok \in BOOLEAN : Web(AnalyzeResponse(ok))

SpecSubmit == Init /\ [][NextSubmit]_vars

\* the background with the options page and the content script
Script(A) == A /\ UNCHANGED <<extVars, webVars, requests, parseVars, dashVars>>

NextScripts ==
  \/ \E p \in JobIds, url \in Urls : Ext(ContextMenuClick(p, url))
  \/ \E url \in Urls : ContextMenuClickOther(url)
  \/ \E p \in JobIds, outcome \in SubmitOutcomes : Ext(SubmitResponse(p, outcome))
  \/ \E p \in JobIds, ok \in BOOLEAN : Ext(SseConnectResponse(p, ok))
  \/ \E p \in JobIds, event \in Events : Ext(SseRead(p, event))
  \/ \E p \in JobIds : Ext(SseReadDone(p))
  \/ \E p \in JobIds : Ext(SseReadError(p))
  \/ \E j \in JobIds, ok \in BOOLEAN : Ext(FetchResultResponse(j, ok))
  \/ \E input \in ApiUrlInputs : Script(SaveSettings(input))
  \/ \E ok \in BOOLEAN : Script(SaveSettingsStored(ok))
  \/ \E url \in Urls : Script(analyzeCurrentPage(url))
  \/ \E delivered \in BOOLEAN : Script(ContentResponse(delivered))

SpecScripts == Init /\ [][NextScripts]_vars

\* the web frontend, with the stopped calls marked
NextStream ==
  \/ \E file \in Files : Web(SelectFile(file))
  \/ \E ok \in BOOLEAN : Web(UploadResponse(ok))
  \/ \E ok \in BOOLEAN : Web(AnalyzeResponse(ok))
  \/ \E to \in {"processing", "completed", "error"} : ServerStep(to)
  \/ \E ok \in BOOLEAN, name \in Filenames : Web(MetadataResponse(ok, name))
  \/ \E ok \in BOOLEAN : Web(ResultsResponse(ok))
  \/ Web(TryAgain)
  \/ Web(OpenUploadPage)
  \/ Web(PaperUpload)
  \/ \E ok \in BOOLEAN : Web(PaperUploadResponse(ok))
  \/ Web(PaperRemoveFile)
  \/ \E i \in StreamSlots, ok \in BOOLEAN : Web(StreamResponse(i, ok))
  \/ \E i \in StreamSlots, chunk \in Chunks :
       StreamRead(i, chunk) /\ UNCHANGED <<extVars, scriptVars, parseVars, dashVars>>
  \/ \E i \in StreamSlots : Web(StreamReadDone(i))
  \/ \E i \in StreamSlots : Web(StreamReadError(i))
  \/ Web(RetryClick)
  \/ Web(StartClick)
  \/ Web(StopClickMarked)

SpecStream == Init /\ [][NextStream]_vars

\* handleSseEvent called on its own, before and after the job is tracked,
\* with the popup open or closed
NextHandler ==
  \/ \E p \in JobIds, url \in Urls : Ext(ContextMenuClick(p, url))
  \/ \E p \in JobIds, outcome \in SubmitOutcomes : Ext(SubmitResponse(p, outcome))
  \/ \E j \in JobIds, event \in Events : Ext(CallHandleSseEvent(j, event))
  \/ \E j \in JobIds, ok \in BOOLEAN : Ext(FetchResultResponse(j, ok))
  \/ Ext(PopupOpen)
  \/ Ext(PopupClose)

SpecHandler == Init /\ [][NextHandler]_vars

\* a step of the dashboard
Dash(A) == A /\ UNCHANGED <<extVars, webVars, requests, scriptVars, parseVars>>

NextDash ==
  \/ \E answer \in ListAnswers : Dash(DashboardMount(answer))
  \/ \E answer \in ListAnswers : Dash(PollTick(answer))
  \/ \E answer \in ListAnswers : Dash(RefreshClick(answer))
  \/ \E i \in 1..MaxFetches : Dash(FetchAnalysesResponse(i))
  \/ \E id \in AnalysisIds, ok \in BOOLEAN : Dash(DeleteClick(id, ok))
  \/ \E id \in AnalysisIds : Dash(DeleteResponse(id))

SpecDash == Init /\ [][NextDash]_vars

\* the web frontend without the /upload page: the dashboard's upload, the
\* analysis page and the streams it opens
NextPage ==
  \/ \E file \in Files : Web(SelectFile(file))
  \/ \E ok \in BOOLEAN : Web(UploadResponse(ok))
  \/ \E ok \in BOOLEAN : Web(AnalyzeResponse(ok))
  \/ \E to \in {"processing", "completed", "error"} : ServerStep(to)
  \/ \E ok \in BOOLEAN, name \in Filenames : Web(MetadataResponse(ok, name))
  \/ \E ok \in BOOLEAN : Web(ResultsResponse(ok))
  \/ Web(TryAgain)
  \/ \E i \in StreamSlots, ok \in BOOLEAN : Web(StreamResponse(i, ok))
  \/ \E i \in StreamSlots, chunk \in Chunks :
       StreamRead(i, chunk) /\ UNCHANGED <<extVars, scriptVars, parseVars, dashVars>>
  \/ \E i \in StreamSlots : Web(StreamReadDone(i))
  \/ \E i \in StreamSlots : Web(StreamReadError(i))
  \/ Web(RetryClick)
  \/ Web(StartClick)
  \/ Web(StopClick)

SpecPage == Init /\ [][NextPage]_vars

\* the read loop on the text of one stream
Parse(A) == A /\ UNCHANGED <<extVars, webVars, requests, scriptVars, dashVars>>

NextParse ==
  \/ \E value \in Values : Parse(ParseRead(value))
  \/ Parse(ParseDone)

SpecParse == Init /\ [][NextParse]_vars


(***************************************************************************)
(* Properties.                                                             *)
(***************************************************************************)

\* C1: at most one analysis request is in flight per file: no POST
\* /analyze/stream is issued for a file that was submitted through POST
\* /analyze/async (whose job is then queued or processing).
C1_SingleFlight ==
  \A r \in requests :
    r.endpoint = "analyze/stream" =>
      AsyncSubmission(r.file_id, AbsentUrl) \notin requests

TerminalStatus == {"Complete", "Failed"}

\* C2: the status the popup displays for a job only moves forward: a job
\* displayed as Complete or Failed keeps that status while the popup shows it,
\* and is never displayed as Queued or Processing again.
C2_StatusForwardOnly ==
  [][\A j \in JobIds :
       (popupOpen /\ popupOpen' /\ popupJobs[j].present /\ popupJobs'[j].present
          /\ getJobStatus(popupJobs[j]) \in TerminalStatus)
         => getJobStatus(popupJobs'[j]) = getJobStatus(popupJobs[j])]_vars

\* C3: the progress the popup displays for a job in progress never decreases.
C3_ProgressNonDecreasing ==
  [][\A j \in JobIds :
       (popupOpen /\ popupOpen' /\ popupJobs[j].present /\ popupJobs'[j].present
          /\ getJobStatus(popupJobs[j]) \notin TerminalStatus)
         => ShownProgress(popupJobs'[j]) >= ShownProgress(popupJobs[j])]_vars

\* C4: whenever the streaming component holds an analysis, its progress is 100.
C4_AnalysisMeansFullProgress ==
  (st.host # "none" /\ st.analysis) => st.progress = 100

Count(log, S) == Cardinality({i \in 1..Len(log) : log[i] \in S})

TerminalNotifications == {"Analysis Complete!", "Analysis Failed", "Connection Error"}

TerminalMessages == {"job_complete", "job_error"}

\* C5: a job yields at most one terminal outcome: one of the notifications
\* 'Analysis Complete!', 'Analysis Failed' and 'Connection Error', and one of
\* the messages job_complete and job_error.
C5_OneTerminalOutcome ==
  \A j \in JobIds :
    /\ Count(notifications[j], TerminalNotifications) <= 1
    /\ Count(sentMessages[j], TerminalMessages) <= 1

\* the background has reported how the job ended, or is about to
Settled(j) ==
  \/ Count(notifications[j], TerminalNotifications) > 0
  \/ Count(sentMessages[j], TerminalMessages) > 0
  \/ pendingResult[j] > 0
  \/ "Analysis Complete" \in {notifications[j][i] : i \in 1..Len(notifications[j])}

\* C6: while a job is tracked and no terminal event of it was handled, the
\* background keeps a way to learn its state: a stream request is outstanding
\* or a stream is being read (it re-subscribes or polls once a stream is lost).
C6_KeepsFollowingJob ==
  \A j \in JobIds :
    (activeJobs[j].present /\ ~Settled(j)) => pc[j] \in {"connect", "read"}

\* the analysis page has not opened a stream: the streams of the /upload
\* page are those for the file uploaded there
NoPageStream ==
  \A r \in requests : r.endpoint = "analyze/stream" => r.file_id = PaperFileId

\* C7: when the analysis page is opened for a job whose stored status is
\* completed and the stored results are served, fetchAnalysis ends with the
\* results set and displayed, with no stream opened, no chunk received and
\* no request sent but the one for the results.
C7_CompletedJobShowsResults ==
  [][(route = "analysis" /\ NoPageStream /\ page.pc # page'.pc
        /\ page'.pc \in {"results", "loaded"})
       => /\ page.pc = "metadata" => requests' = requests \cup {Request("analyses/id/results")}
          /\ page.pc = "results" => requests' = requests
          /\ page'.pc = "loaded" => (page'.analysis /\ pageView(page') = "results")
          /\ st'.host = "none"
          /\ chunkCount' = chunkCount]_vars

C7_Witness ==
  /\ route = "analysis"
  /\ page.pc = "loaded"
  /\ page.analysisStatus = "completed"
  /\ NoPageStream
  /\ pageView(page) = "results"

\* C8: when the analysis page is opened for a job whose stored status is
\* error, the page shows a failure and does not stay on the loading view.
C8_ErrorStatusShown ==
  (route = "analysis" /\ page.pc \in Returned /\ page.analysisStatus = "error")
    => pageView(page) = "error"

\* C9: once cancel_job was handled for a job, the job is in neither activeJobs
\* nor sseConnections, and nothing more is emitted for it: no notification,
\* no badge update, no message.
C9_SilentAfterCancel ==
  \A j \in JobIds :
    cancelHandled[j] =>
      /\ ~activeJobs[j].present
      /\ j \notin sseConnections
      /\ afterCancel[j] = {}

\* a submission names a file, a URL: the key is there, with a value
NamesFile(r) == r.file_id \notin {Absent, NoFileId}

NamesUrl(r) == r.pdf_url \notin {AbsentUrl, NoUrl}

C10_WitnessInvalid ==
  /\ \E p \in JobIds : pc[p] = "returned" /\ pdfUrlOf[p] = NoUrl
  /\ AsyncSubmission(FileId, AbsentUrl) \in requests

\* C11: when the submit request is rejected (a response that is not OK, or
\* one without job_id), analyzePaper shows 'Analysis Failed' at once and
\* leaves activeJobs and sseConnections as they were: no job entry, no stream.
C11_RejectedSubmitLeavesNoJob ==
  [][\A p \in JobIds :
       (pc[p] = "submit" /\ pc'[p] = "returned")
         => /\ notifications'[p] = Append(notifications[p], "Analysis Failed")
            /\ activeJobs' = activeJobs
            /\ ~activeJobs'[p].present
            /\ sseConnections' = sseConnections
            /\ requests' = requests]_vars

C11_Witness ==
  \E p \in JobIds :
    /\ pc[p] = "returned"
    /\ pdfUrlOf[p] # NoUrl
    /\ notifications[p] = <<"Analysis Failed">>
    /\ ~activeJobs[p].present
    /\ p \notin sseConnections

\* C12: once a valid API URL has been saved on the options page, every
\* later fetch of the background (job submission, stream subscription,
\* result fetch) goes to the saved API URL.
C12_FetchesUseSavedApiUrl ==
  [][storedApiUrl # NoSetting
       => \A f \in fetched' \ fetched : f.base = storedApiUrl]_vars

\* C13: a click on the indicator of an arXiv page whose PDF URL can be
\* extracted, once the background has answered analyze_paper, leaves the
\* content script showing 'Analysis started!' and a job for that URL in
\* activeJobs.
C13_IndicatorStartsAnalysis ==
  (content.pc = "idle" /\ content.pdfUrl # NoUrl
     /\ content.shown \notin {"none", "Failed to start analysis"})
    => /\ content.shown = "Analysis started!"
       /\ \E j \in JobIds :
            activeJobs[j].present /\ activeJobs[j].url = content.pdfUrl

\* C14: every pdf_url the extension submits is an arXiv PDF URL: its host is
\* arxiv.org and its path is a /pdf/ path.
C14_OnlyArxivPdfUrls ==
  \A r \in requests :
    (r.endpoint = "analyze/async" /\ NamesUrl(r))
      => /\ Head(r.pdf_url) = "arxiv.org"
         /\ Len(r.pdf_url) >= 3
         /\ r.pdf_url[2] = "pdf"

\* C15: every stream message of type "state" read for a tracked job is
\* applied as a progress update: the badge text becomes the message's
\* progress and a job_progress message is sent.
C15_StateMessageUpdatesProgress ==
  [][\A p \in JobIds :
       (evCount'[p] = evCount[p] + 1 /\ lastEvent'[p].type = "state"
          /\ activeJobs[p].present)
         => /\ badgeText' = BadgeOf(ProgressOf(lastEvent'[p]))
            /\ sentMessages'[p] = Append(sentMessages[p], "job_progress")]_vars

\* C16: no event is lost: once the stream has closed, every well-formed
\* 'data: ' line that arrived on it was passed to the handler, the last line
\* included when no newline follows it.
C16_NoEventLost ==
  closed => handled = EventsIn(split(arrived))

\* C17: the entry of a job in activeJobs is removed once the job has reached
\* done or error: when the background has reported the job's end and has
\* nothing left to do for it (its read loop has returned, no
\* handleJobComplete is waiting), activeJobs holds no entry for it.
C17_EntryRemovedAfterTerminal ==
  \A j \in JobIds :
    (Count(sentMessages[j], TerminalMessages) > 0
       /\ pendingResult[j] = 0 /\ pc[j] = "returned")
      => ~activeJobs[j].present

\* C18: for every tracked job the popup shows that has not reached done or
\* error, the popup offers Cancel; and it offers View Results exactly when
\* the job is done with a result.
C18_PopupOffersCancel ==
  \A j \in JobIds :
    (popupOpen /\ popupJobs[j].present)
      => /\ (activeJobs[j].present /\ ~Settled(j)
               /\ popupJobs[j].status \notin {"done", "error"})
              => "Cancel" \in renderJobActions(popupJobs[j])
         /\ "View Results" \in renderJobActions(popupJobs[j])
              <=> (popupJobs[j].status = "done" /\ popupJobs[j].result)

\* a file UploadArea has to reject: its name does not end in .pdf, whatever
\* the case, or its size is above 50MB
NotPdf(file) == file.ext \notin {"pdf", "PDF"}

TooBig(file) == file.size > 50 * 1024 * 1024

\* C19: UploadArea rejects a file before any request: for a file whose name
\* does not end in .pdf (in any case) or whose size exceeds 50MB,
\* handleFileUpload sets the matching error and sends nothing, and
\* isUploading stays false.
C19_BadFileRejected ==
  (route = "dashboard" /\ ua.pc = "idle")
    => \A file \in Files :
         (NotPdf(file) \/ TooBig(file))
           => LET w == handleFileUpload(World, file) IN
              /\ w.ua.error = IF NotPdf(file) THEN "Only PDF files are supported"
                              ELSE "File size must be less than 50MB"
              /\ w.requests = requests
              /\ ~w.ua.isUploading
              /\ w.ua.pc = "idle"

C19_Witness ==
  /\ ua.error = "File size must be less than 50MB"
  /\ ua.pc = "idle"
  /\ ~ua.isUploading
  /\ requests = {}

\* C20: sseConnections holds an entry for a job only while the job's read
\* loop is running: once startSseStream has returned, on any path, there is
\* no entry for the job.
C20_ConnectionOnlyWhileReading ==
  \A j \in JobIds :
    /\ j \in sseConnections => pc[j] = "read"
    /\ pc[j] = "returned" => j \notin sseConnections

C20_Witness ==
  \E j \in JobIds :
    /\ pc[j] = "returned"
    /\ evCount[j] > 0
    /\ j \notin sseConnections

\* the calls of startStreaming of the mounted component that have not ended
Running(ss) == {i \in StreamSlots : ss[i].pc # "free" /\ ss[i].live}

\* C21: for one StreamingAnalysisResults instance at most one stream (the
\* fetch and the read loop of one call of startStreaming) is active at any
\* time.
C21_OneStreamAtATime == Cardinality(Running(streams)) <= 1

\* C22: after Stop was clicked, no chunk of a stream that was running then
\* changes progress, streamingContent, analysis or error, and neither
\* onComplete nor onError is called for it: a step in which a chunk arrives
\* while every stream being read is a stopped one of the mounted component
\* leaves the component's state and its parent's state as they were.
C22_StoppedStreamSilent ==
  [][(/\ chunkCount' # chunkCount
      /\ \A i \in StreamSlots :
           streams[i].pc = "read" => (streams[i].stopped /\ streams[i].live))
       => /\ st'.progress = st.progress
          /\ st'.content = st.content
          /\ st'.analysis = st.analysis
          /\ st'.error = st.error
          /\ page' = page
          /\ pa' = pa]_vars

\* onError of the component's parent is called in the step: the parent's
\* error becomes set
onErrorCalled ==
  \/ st.host = "AnalysisPage" /\ ~page.error /\ page'.error
  \/ st.host = "PaperAnalysis" /\ ~pa.error /\ pa'.error

Fetching(ss) == {i \in StreamSlots : ss[i].pc = "fetch"}

\* C23: after a stream fails or delivers an error chunk, the component is in
\* the error view and has sent no further analysis request by itself: the
\* step in which a call of the mounted component reports the error ends with
\* error set, the error view rendered and no new fetch started.
C23_ErrorViewUntilRetry ==
  [][(/\ st.host # "none"
      /\ st'.host = st.host
      /\ \A i \in StreamSlots : streams[i].pc # "free" => streams[i].live
      /\ onErrorCalled)
       => /\ st'.error
          /\ componentView(st') = "error"
          /\ Cardinality(Fetching(streams')) <= Cardinality(Fetching(streams))]_vars

\* the newline-terminated lines of a text
Terminated(text) == SubSeq(split(text), 1, Len(split(text)) - 1)

\* a line that is 'data: ' followed by a JSON text
WellFormed(line) ==
  Len(line) = 2 /\ line[1] = "data: " /\ line[2] \in {"{a}", "{b}"}

\* C24: the read loop frames the events independently of how the text is
\* split into reads: whatever the reads were, the handler has been given
\* the payload of every newline-terminated well-formed 'data: ' line of
\* the text that has arrived, once each and in the order of arrival.
C24_FramingIndependentOfReads ==
  LET good == SelectSeq(Terminated(arrived), WellFormed) IN
  handled = [i \in 1..Len(good) |-> good[i][2]]

C24_Witness ==
  /\ reassembled
  /\ Len(handled) = 2
  /\ handled[1] # handled[2]

\* C25: a 'data: ' line whose payload is no JSON, and a line that does not
\* start with 'data: ', is skipped: it passes nothing to the handler, and
\* every well-formed event after it is still handled.
C25_BadLinesSkipped ==
  LET lines == Terminated(arrived)
      bad == {i \in 1..Len(lines) : ~WellFormed(lines[i])}
  IN
  /\ Len(handled) = Len(lines) - Cardinality(bad)
  /\ \A i \in bad : \A k \in (i + 1)..Len(lines) :
       WellFormed(lines[k])
         => \E n \in 1..Len(handled) : handled[n] = lines[k][2]

C25_Witness ==
  /\ ~closed
  /\ Len(Terminated(arrived)) = 2
  /\ Terminated(arrived)[1] = <<"data: ", "junk">>
  /\ WellFormed(Terminated(arrived)[2])
  /\ handled = <<Terminated(arrived)[2][2]>>

\* C27: handleSseEvent leaves everything unchanged for a job id that is not
\* in activeJobs: whatever the type of the event, a call for such an id
\* changes neither the badge text nor activeJobs nor sseConnections, and
\* sends no message and no notification.
C27_UntrackedJobUntouched ==
  [][\A j \in JobIds :
       (evCount'[j] # evCount[j] /\ ~activeJobs[j].present)
         => /\ badgeText' = badgeText
            /\ activeJobs' = activeJobs
            /\ sseConnections' = sseConnections
            /\ sentMessages' = sentMessages
            /\ popupInbox' = popupInbox
            /\ notifications' = notifications
            /\ pendingResult' = pendingResult
            /\ fetched' = fetched]_vars

C27_Witness ==
  \E j \in JobIds :
    /\ pc[j] = "idle"
    /\ ~activeJobs[j].present
    /\ evCount[j] = MaxEvents
    /\ lastEvent[j].type = "status"
    /\ badgeText = NoBadge

\* C26: for a job analyzePaper has started, the 'Analysis Started'
\* notification is shown before any terminal notification of the job.
C26_StartedBeforeTerminal ==
  \A j \in JobIds :
    (activeJobs[j].present \/ cancelHandled[j])
      => \A i \in 1..Len(notifications[j]) :
           notifications[j][i] \in TerminalNotifications
             => \E k \in 1..(i - 1) : notifications[j][k] = "Analysis Started"

\* C28: after popup.cancelJob(jobId) has resolved, the job is in neither the
\* popup's jobs map nor the background's activeJobs, whatever loadJobs
\* request was under way at the time of the cancel.
C28_CancelledJobStaysGone ==
  \A j \in JobIds :
    (popupOpen /\ cancelHandled[j] /\ j \notin cancelAwaiting)
      => /\ ~activeJobs[j].present
         /\ ~popupJobs[j].present

\* C29: UploadArea navigates to /analysis/{job_id} and calls onUploadSuccess
\* only after both the upload and the submission returned OK; when either
\* fails an error message is set and neither happens; and whenever
\* handleFileUpload has finished, isUploading is false and uploadProgress 0.
C29_NavigateOnlyAfterBothOk ==
  [][/\ (ua'.navigated # ua.navigated \/ ua'.uploadSuccess # ua.uploadSuccess)
          => /\ ua.pc = "analyze"
             /\ ua'.navigated /\ ua'.uploadSuccess
             /\ route' = "analysis"
             /\ ua'.error = "none"
     /\ (ua.pc \in {"upload", "analyze"} /\ ua'.pc = "idle")
          => /\ ~ua'.isUploading
             /\ ua'.uploadProgress = 0
             /\ \/ ua'.navigated /\ ua'.uploadSuccess
                \/ /\ ua'.error = IF ua.pc = "upload" THEN "Upload failed"
                                  ELSE "Failed to start analysis"
                   /\ ~ua'.navigated /\ ~ua'.uploadSuccess
                   /\ route' = route]_vars

C29_Witness ==
  /\ ua.pc = "idle"
  /\ ua.error = "Failed to start analysis"
  /\ startAnalysisBody(FileId) \in requests
  /\ ~ua.navigated /\ ~ua.uploadSuccess
  /\ ~ua.isUploading /\ ua.uploadProgress = 0
  /\ route = "dashboard"

\* C30: once handleAnalysisDeleted has removed an analysis from the
\* dashboard's list, the list never holds it again, whatever fetchAnalyses
\* request was under way during the delete.
C30_DeletedStaysGone == \A id \in removed : id \notin dash.analyses

====
